---- MODULE Spec2Model ----
(***************************************************************************)
(* The RAG system: the query pipeline of LocalQuerySystem                  *)
(* (local_query.py), QueryService (query_service.py) and RAGSystem         *)
(* (main.py), and the ingestion of DataIngestion (document_indexing.py).   *)
(*                                                                         *)
(* One call is in flight at a time (the code is synchronous).  The vector  *)
(* backend, the rerank model and the generation model are external: each   *)
(* call to one of them either raises or returns a value allowed by its     *)
(* contract, chosen nondeterministically.                                  *)
(*                                                                         *)
(* Optional[int] top_k is modelled as <<>> (None) or <<k>>.                *)
(* Strings of the source that are not ASCII are rendered in ASCII.         *)
(***************************************************************************)
EXTENDS Integers, Sequences, FiniteSets, TLC

\* ------------------------------------------------------------------ bounds
MaxRecords == 2
MaxBatch == 2
MaxScore == 2
MaxTopK == 2
\* DataIngestion calls in one run of the ingestion process
MaxCalls == 3
\* texts in one call of process_documents_from_text
MaxChunks == 2
\* documents of the long list beyond the first batch
MaxTail == 1
\* files matched by one ingest_from_directory call
MaxFiles == 2
\* text elements of one extracted PDF
MaxFragments == 2

\* ------------------------------------------------------- program constants
SIMILARITY_TOP_K == 5
\* batch_size of ingest_documents
batch_size == 10

\* custom_template of LocalQuerySystem.__init__; the template prescribes the
\* fallback sentence CANNOT_ANSWER
CUSTOM_TEMPLATE == "custom_template"
\* the library's default text_qa_template, used when as_query_engine is
\* called without text_qa_template
DEFAULT_TEMPLATE == "default_text_qa_template"
CANNOT_ANSWER == "wo wufa huida nin de wenti"

Texts == {"t1", "t2"}
Questions == {"q1", "q2"}
\* texts the generation model may return
Answers == {CANNOT_ANSWER, "an answer"}
\* top_k is an unvalidated Optional[int]: None, zero, negative or positive
TopKs == {<<>>} \cup {<<k>> : k \in (-1)..MaxTopK}

\* ------------------------------------------------------------------ helpers
Min(a, b) == IF a < b THEN a ELSE b

\* Python truthiness of an Optional[int]
Truthy(top_k) == top_k /= <<>> /\ top_k[1] /= 0

\* Python `top_k or default`
OrDefault(top_k, default) == IF Truthy(top_k) THEN top_k[1] ELSE default

\* "\n\n".join(texts)
RECURSIVE Join(_)
Join(texts) ==
    IF texts = <<>> THEN ""
    ELSE IF Len(texts) = 1 THEN texts[1]
    ELSE texts[1] \o "\n\n" \o Join(Tail(texts))

\* str.strip(): leading and trailing whitespace removed
IsSpace(c) == c \in {" ", "\n", "\t", "\r"}

RECURSIVE LStrip(_)
LStrip(s) ==
    IF Len(s) = 0 THEN s
    ELSE IF IsSpace(SubSeq(s, 1, 1)) THEN LStrip(SubSeq(s, 2, Len(s)))
    ELSE s

RECURSIVE RStrip(_)
RStrip(s) ==
    IF Len(s) = 0 THEN s
    ELSE IF IsSpace(SubSeq(s, Len(s), Len(s))) THEN RStrip(SubSeq(s, 1, Len(s) - 1))
    ELSE s

Strip(s) == RStrip(LStrip(s))

\* s.endswith(suffix)
EndsWith(s, suffix) ==
    /\ Len(s) >= Len(suffix)
    /\ SubSeq(s, Len(s) - Len(suffix) + 1, Len(s)) = suffix

\* s.rstrip(chars): every trailing character that is in chars is removed
RECURSIVE RStripChars(_, _)
RStripChars(s, chars) ==
    IF Len(s) = 0 THEN s
    ELSE IF SubSeq(s, Len(s), Len(s)) \in chars
    THEN RStripChars(SubSeq(s, 1, Len(s) - 1), chars)
    ELSE s

\* injective sequences of length n over S
InjSeqs(S, n) == {s \in [1..n -> S] : \A i, j \in 1..n : i /= j => s[i] /= s[j]}

SeqsUpTo(S, n) == UNION {[1..m -> S] : m \in 0..n}

NoResult == [type |-> "none"]
NoError == [type |-> "none"]
NoIndex == [built |-> FALSE, documents |-> <<>>]
NoBatch == [active |-> FALSE, questions |-> <<>>, i |-> 0, results |-> <<>>,
            env |-> <<>>]

\* Document(text=..., metadata={"source": ..., "<kind>_id": i, "source_type": ...});
\* the TextNode ingest_documents stores carries the same text and metadata
Doc(text, source, id, source_type) ==
    [text |-> text,
     metadata |-> [source |-> source, id |-> id, source_type |-> source_type]]

\* the frame of a DataIngestion call
NoIng == [op |-> "none", prev |-> "none", documents |-> <<>>, before |-> <<>>,
          ok |-> FALSE, log |-> <<>>, input |-> <<>>, calls |-> 0]
\* sizes asked of the retriever and of the reranker by the call in flight
NoRequests == [retrieve |-> <<>>, rerank |-> <<>>]
NoEngine == [similarity_top_k |-> 0, text_qa_template |-> "none"]

VARIABLES
    collection,     \* the stored records of the vector collection, in write order
    pc,             \* position of the call in flight
    call,           \* the arguments of the call in flight
    nodes,          \* nodes returned by the retriever (node.score is mutable)
    rerank_results, \* what reranker.rank returned
    llm_calls,      \* prompts handed to the generation model by this call
    response,       \* the response object of the call
    result,         \* what the call returned to its caller
    raised,         \* the exception the call let propagate to its caller
    trace,          \* stages the call went through, in order
    batch,          \* the frame of batch_query while it runs
    rag_index,      \* RAGSystem.index: the documents of its own index
    process,        \* the program that runs: each script is its own process
    fault,          \* the stage whose external call raised in this call (history)
    ing,            \* the last DataIngestion call of this process (history)
    defaults,       \* self.query_engine and self.retriever of the service object
    rebuilt,        \* the collection was cleared, then an empty list ingested,
                    \* and nothing was stored since (history)
    requests,       \* sizes asked of the retriever and the reranker (history)
    earlier         \* an earlier call of this process overrode top_k or asked
                    \* for reranking (history)

vars == <<collection, pc, call, nodes, rerank_results, llm_calls, response,
          result, raised, trace, batch, rag_index, process, fault, ing,
          defaults, rebuilt, requests, earlier>>

\* what a single call works on
frame == <<call, nodes, rerank_results, llm_calls, response, result, raised,
           trace, fault, requests>>

NoCall == [entry |-> "none", op |-> "none", question |-> "", top_k |-> <<>>,
           show_sources |-> FALSE, use_rerank |-> FALSE]
NoResponse == [text |-> "", source_nodes |-> <<>>]

\* local_query.py and query_service.py read the Milvus collection,
\* document_indexing.py writes it; main.py builds RAGSystem(use_milvus=False),
\* which keeps its index in memory
Processes == {"local_query.py", "query_service.py", "main.py",
              "document_indexing.py"}

\* _init_system / _init_services: the default query engine and retriever
DefaultsOf(p) ==
    IF p = "local_query.py"
    THEN [query_engine |-> [similarity_top_k |-> SIMILARITY_TOP_K,
                            text_qa_template |-> CUSTOM_TEMPLATE],
          retriever |-> [similarity_top_k |-> SIMILARITY_TOP_K]]
    ELSE IF p = "query_service.py"
    THEN [query_engine |-> [similarity_top_k |-> SIMILARITY_TOP_K,
                            text_qa_template |-> DEFAULT_TEMPLATE],
          retriever |-> [similarity_top_k |-> SIMILARITY_TOP_K]]
    ELSE [query_engine |-> NoEngine, retriever |-> [similarity_top_k |-> 0]]

\* texts of the stored records, as the retriever returns them
StoredTexts == [i \in 1..Len(collection) |-> collection[i].text]

\* collections left by earlier runs of `document_indexing.py --text t`
InitCollections ==
    {[i \in 1..Len(ts) |-> Doc(ts[i], "command_line", 0, "text")] :
        ts \in SeqsUpTo(Texts, MaxRecords)}

Init ==
    /\ process \in Processes
    /\ collection \in IF process = "main.py" THEN {<<>>} ELSE InitCollections
    /\ ing = NoIng
    /\ defaults = DefaultsOf(process)
    /\ rebuilt = FALSE
    /\ requests = NoRequests
    /\ earlier = FALSE
    /\ pc = "idle"
    /\ call = NoCall
    /\ nodes = <<>>
    /\ rerank_results = <<>>
    /\ llm_calls = <<>>
    /\ response = NoResponse
    /\ result = NoResult
    /\ raised = NoError
    /\ trace = <<>>
    /\ batch = NoBatch
    /\ rag_index = NoIndex
    /\ fault = "none"

\* ------------------------------------------------- external collaborators
\* retriever.retrieve(question) with similarity_top_k = n: the n nearest
\* records (all of them when fewer are stored), in descending similarity;
\* which records are nearest is the backend's choice.  The similarity score
\* of the p-th node is 100 - p.  For a size below one the source fixes no
\* answer of the backend: it returns nothing, or raises (the fault branch of
\* the caller).
Retrievals(store, n) ==
    LET m == Min(n, Len(store))
    IN {[p \in 1..m |-> [node_id |-> ids[p], text |-> store[ids[p]],
                         score |-> 100 - p]] :
            ids \in InjSeqs(1..Len(store), m)}

\* reranker.rank(question, documents, return_documents=True, top_k=k): the
\* k best documents (all when fewer), in descending rerank score; each result
\* carries the index of the document in the input, its text and its score.
RankOutcomes(documents, k) ==
    LET m == Min(k, Len(documents))
        Picks == {r \in [1..m -> [index : 1..Len(documents), score : 1..MaxScore]] :
                    /\ \A i, j \in 1..m : i /= j => r[i].index /= r[j].index
                    /\ \A i \in 1..m : i < m => r[i].score >= r[i + 1].score}
    IN {[p \in 1..m |-> [index |-> r[p].index, document |-> documents[r[p].index],
                         score |-> r[p].score]] : r \in Picks}

\* ------------------------------------------------ LocalQuerySystem.query
\* the f-string of the except clause
FailureAnswer(e) == "query failed: " \o e

\* the except clause: the fault e raised in `stage` becomes a failure result
LQ_Except(stage, e, calls) ==
    /\ pc' = "FAILED"
    /\ trace' = trace \o <<stage, "FAILED">>
    /\ result' = [type |-> "QueryResult", question |-> call.question,
                  answer |-> FailureAnswer(e), sources |-> <<>>,
                  processing_time |-> 0]
    /\ llm_calls' = calls
    /\ UNCHANGED <<collection, call, nodes, rerank_results, response, raised,
                   batch, rag_index, process, ing, defaults, rebuilt, earlier>>
    /\ fault' = stage

LQ_Start(question, top_k, show_sources, use_rerank) ==
    /\ process = "local_query.py"
    /\ pc = "idle"
    /\ call' = [entry |-> "LocalQuerySystem", op |-> "query", question |-> question,
                top_k |-> top_k, show_sources |-> show_sources,
                use_rerank |-> use_rerank]
    /\ pc' = "retrieve"
    /\ trace' = <<"START">>
    /\ UNCHANGED <<collection, nodes, rerank_results, llm_calls, response,
                   result, raised, batch, rag_index, process, ing, defaults, rebuilt, earlier, requests, fault>>

\* the query engine of the non-rerank branch
LQ_Engine ==
    IF Truthy(call.top_k) /\ call.top_k[1] /= SIMILARITY_TOP_K
    THEN [similarity_top_k |-> call.top_k[1], text_qa_template |-> CUSTOM_TEMPLATE]
    ELSE defaults.query_engine

LQ_RetrieveCount ==
    IF call.use_rerank
    THEN OrDefault(call.top_k, SIMILARITY_TOP_K) * 2
    ELSE LQ_Engine.similarity_top_k

\* LQ_Retrieve with the rerank branch taken whatever the flag says
LQ_Retrieve_AlwaysRerank ==
    /\ call.entry = "LocalQuerySystem" /\ call.op = "query"
    /\ pc = "retrieve"
    /\ requests' = [requests EXCEPT !.retrieve = <<LQ_RetrieveCount>>]
    /\ \/ \E ns \in Retrievals(StoredTexts, LQ_RetrieveCount) :
            /\ nodes' = ns
            /\ trace' = Append(trace, "RETRIEVE")
            /\ pc' = "rerank"
            /\ UNCHANGED <<collection, call, rerank_results, llm_calls,
                           response, result, raised, batch, rag_index, process, ing, defaults, rebuilt, earlier, fault>>
       \/ LQ_Except("RETRIEVE", "retrieval error", llm_calls)

\* LQ_Retrieve with the engine of a top_k override kept as self.query_engine
LQ_Retrieve_KeepsOverride ==
    /\ call.entry = "LocalQuerySystem" /\ call.op = "query"
    /\ pc = "retrieve"
    /\ requests' = [requests EXCEPT !.retrieve = <<LQ_RetrieveCount>>]
    /\ defaults' = [defaults EXCEPT !.query_engine = LQ_Engine]
    /\ \/ \E ns \in Retrievals(StoredTexts, LQ_RetrieveCount) :
            /\ nodes' = ns
            /\ trace' = Append(trace, "RETRIEVE")
            /\ pc' = IF call.use_rerank THEN "rerank" ELSE "compose"
            /\ UNCHANGED <<collection, call, rerank_results, llm_calls,
                           response, result, raised, batch, rag_index, process, ing, rebuilt, earlier, fault>>
       \/ /\ pc' = "FAILED"
          /\ trace' = trace \o <<"RETRIEVE", "FAILED">>
          /\ result' = [type |-> "QueryResult", question |-> call.question,
                        answer |-> FailureAnswer("retrieval error"),
                        sources |-> <<>>, processing_time |-> 0]
          /\ fault' = "RETRIEVE"
          /\ UNCHANGED <<collection, call, nodes, rerank_results, llm_calls,
                         response, raised, batch, rag_index, process, ing, rebuilt, earlier>>

\* LQ_Retrieve with the vector store opened with overwrite=True
LQ_Retrieve_Overwrite ==
    /\ call.entry = "LocalQuerySystem" /\ call.op = "query"
    /\ pc = "retrieve"
    /\ requests' = [requests EXCEPT !.retrieve = <<LQ_RetrieveCount>>]
    /\ \/ /\ nodes' = <<>>
          /\ collection' = <<>>
          /\ trace' = Append(trace, "RETRIEVE")
          /\ pc' = IF call.use_rerank THEN "rerank" ELSE "compose"
          /\ UNCHANGED <<call, rerank_results, llm_calls,
                         response, result, raised, batch, rag_index, process, ing, defaults, rebuilt, earlier, fault>>
       \/ LQ_Except("RETRIEVE", "retrieval error", llm_calls)

LQ_Retrieve ==
    /\ call.entry = "LocalQuerySystem" /\ call.op = "query"
    /\ pc = "retrieve"
    /\ requests' = [requests EXCEPT !.retrieve = <<LQ_RetrieveCount>>]
    /\ \/ \E ns \in Retrievals(StoredTexts, LQ_RetrieveCount) :
            /\ nodes' = ns
            /\ trace' = Append(trace, "RETRIEVE")
            /\ pc' = IF call.use_rerank THEN "rerank" ELSE "compose"
            /\ UNCHANGED <<collection, call, rerank_results, llm_calls,
                           response, result, raised, batch, rag_index, process, ing, defaults, rebuilt, earlier, fault>>
       \/ LQ_Except("RETRIEVE", "retrieval error", llm_calls)

NodeTexts(ns) == [i \in 1..Len(ns) |-> ns[i].text]

\* LQ_Rerank with the reranker asked for as many results as were retrieved
LQ_Rerank_AskAll ==
    /\ call.entry = "LocalQuerySystem" /\ call.op = "query"
    /\ pc = "rerank"
    /\ requests' = [requests EXCEPT !.rerank = <<LQ_RetrieveCount>>]
    /\ \/ \E rr \in RankOutcomes(NodeTexts(nodes), LQ_RetrieveCount) :
            /\ rerank_results' = rr
            /\ trace' = Append(trace, "RERANK")
            /\ pc' = "compose"
            /\ UNCHANGED <<collection, call, nodes, llm_calls, response,
                           result, raised, batch, rag_index, process, ing, defaults, rebuilt, earlier, fault>>
       \/ LQ_Except("RERANK", "rerank error", llm_calls)

LQ_Rerank ==
    /\ call.entry = "LocalQuerySystem" /\ call.op = "query"
    /\ pc = "rerank"
    /\ requests' = [requests EXCEPT !.rerank = <<OrDefault(call.top_k, SIMILARITY_TOP_K)>>]
    /\ \/ \E rr \in RankOutcomes(NodeTexts(nodes),
                                  OrDefault(call.top_k, SIMILARITY_TOP_K)) :
            /\ rerank_results' = rr
            /\ trace' = Append(trace, "RERANK")
            /\ pc' = "compose"
            /\ UNCHANGED <<collection, call, nodes, llm_calls, response,
                           result, raised, batch, rag_index, process, ing, defaults, rebuilt, earlier, fault>>
       \/ LQ_Except("RERANK", "rerank error", llm_calls)

\* the loop that rebuilds source_nodes from the rerank results: each result
\* is matched to the first node with equal text, whose score it overwrites;
\* reranked_nodes holds references (positions in ns) to the node objects
RECURSIVE Reorganize(_, _, _)
Reorganize(results, ns, reranked_nodes) ==
    IF results = <<>> THEN [nodes |-> ns, reranked_nodes |-> reranked_nodes]
    ELSE LET r == Head(results)
             M == {j \in 1..Len(ns) : ns[j].text = r.document}
         IN IF M = {} THEN Reorganize(Tail(results), ns, reranked_nodes)
            ELSE LET j == CHOOSE x \in M : \A y \in M : x <= y
                 IN Reorganize(Tail(results), [ns EXCEPT ![j].score = r.score],
                               Append(reranked_nodes, j))

AllRefs(ns) == [i \in 1..Len(ns) |-> i]

LQ_Prompt ==
    IF call.use_rerank
    THEN [template |-> CUSTOM_TEMPLATE,
          context_str |-> Join([i \in 1..Len(rerank_results) |-> rerank_results[i].document]),
          query_str |-> call.question]
    ELSE [template |-> LQ_Engine.text_qa_template,
          context_str |-> Join(NodeTexts(nodes)),
          query_str |-> call.question]

\* LQ_Compose with the completion requested a second time
LQ_Compose_Twice ==
    /\ call.entry = "LocalQuerySystem" /\ call.op = "query"
    /\ pc = "compose"
    /\ UNCHANGED requests
    /\ \/ \E text \in Answers :
            LET re == Reorganize(rerank_results, nodes, <<>>)
            IN /\ llm_calls' = llm_calls \o <<LQ_Prompt, LQ_Prompt>>
               /\ nodes' = IF call.use_rerank THEN re.nodes ELSE nodes
               /\ response' = [text |-> text,
                               source_nodes |-> IF call.use_rerank
                                                THEN re.reranked_nodes
                                                ELSE AllRefs(nodes)]
               /\ trace' = Append(trace, "COMPOSE")
               /\ pc' = "respond"
               /\ UNCHANGED <<collection, call, rerank_results, result, raised,
                              batch, rag_index, process, ing, defaults, rebuilt, earlier, fault>>
       \/ LQ_Except("COMPOSE", "generation error", Append(llm_calls, LQ_Prompt))

LQ_Compose ==
    /\ call.entry = "LocalQuerySystem" /\ call.op = "query"
    /\ pc = "compose"
    /\ UNCHANGED requests
    /\ \/ \E text \in Answers :
            LET re == Reorganize(rerank_results, nodes, <<>>)
            IN /\ llm_calls' = Append(llm_calls, LQ_Prompt)
               /\ nodes' = IF call.use_rerank THEN re.nodes ELSE nodes
               /\ response' = [text |-> text,
                               source_nodes |-> IF call.use_rerank
                                                THEN re.reranked_nodes
                                                ELSE AllRefs(nodes)]
               /\ trace' = Append(trace, "COMPOSE")
               /\ pc' = "respond"
               /\ UNCHANGED <<collection, call, rerank_results, result, raised,
                              batch, rag_index, process, ing, defaults, rebuilt, earlier, fault>>
       \/ LQ_Except("COMPOSE", "generation error", Append(llm_calls, LQ_Prompt))

\* sources built from response.source_nodes
SourceInfos(ns, refs) ==
    [i \in 1..Len(refs) |-> [text |-> ns[refs[i]].text, score |-> ns[refs[i]].score]]

\* LQ_Respond with the sources taken from the retrieved nodes in retrieval
\* order instead of response.source_nodes
LQ_Respond_RawSources ==
    /\ call.entry = "LocalQuerySystem" /\ call.op = "query"
    /\ pc = "respond"
    /\ result' = [type |-> "QueryResult", question |-> call.question,
                  answer |-> response.text,
                  sources |-> IF call.show_sources
                              THEN SourceInfos(nodes, AllRefs(nodes))
                              ELSE <<>>,
                  processing_time |-> 1]
    /\ trace' = trace \o <<"LOG", "DONE">>
    /\ pc' = "DONE"
    /\ UNCHANGED <<collection, call, nodes, rerank_results, llm_calls,
                   response, raised, batch, rag_index, process, ing, defaults, rebuilt, earlier, requests, fault>>

LQ_Respond ==
    /\ call.entry = "LocalQuerySystem" /\ call.op = "query"
    /\ pc = "respond"
    /\ result' = [type |-> "QueryResult", question |-> call.question,
                  answer |-> response.text,
                  sources |-> IF call.show_sources
                              THEN SourceInfos(nodes, response.source_nodes)
                              ELSE <<>>,
                  processing_time |-> 1]
    /\ trace' = trace \o <<"LOG", "DONE">>
    /\ pc' = "DONE"
    /\ UNCHANGED <<collection, call, nodes, rerank_results, llm_calls,
                   response, raised, batch, rag_index, process, ing, defaults, rebuilt, earlier, requests, fault>>

\* --------------------------------- LocalQuerySystem.get_relevant_documents
LD_Start(question, top_k) ==
    /\ process = "local_query.py"
    /\ pc = "idle"
    /\ call' = [entry |-> "LocalQuerySystem", op |-> "docs", question |-> question,
                top_k |-> top_k, show_sources |-> TRUE, use_rerank |-> FALSE]
    /\ pc' = "retrieve"
    /\ trace' = <<"START">>
    /\ UNCHANGED <<collection, nodes, rerank_results, llm_calls, response,
                   result, raised, batch, rag_index, process, ing, defaults, rebuilt, earlier, requests, fault>>

\* similarity_top_k of the retriever used by get_relevant_documents
DocsRetrieveCount ==
    IF Truthy(call.top_k) /\ call.top_k[1] /= SIMILARITY_TOP_K
    THEN call.top_k[1]
    ELSE defaults.retriever.similarity_top_k

\* LD_Retrieve with an empty retrieval treated as an error
LD_Retrieve_EmptyIsError ==
    /\ call.entry = "LocalQuerySystem" /\ call.op = "docs"
    /\ pc = "retrieve"
    /\ requests' = [requests EXCEPT !.retrieve = <<DocsRetrieveCount>>]
    /\ \/ \E ns \in Retrievals(StoredTexts, DocsRetrieveCount) :
            /\ nodes' = ns
            /\ result' = [type |-> "documents",
                          documents |-> SourceInfos(ns, AllRefs(ns))]
            /\ trace' = trace \o <<"RETRIEVE", IF ns = <<>> THEN "FAILED" ELSE "DONE">>
            /\ pc' = IF ns = <<>> THEN "FAILED" ELSE "DONE"
            /\ UNCHANGED fault
       \/ /\ result' = [type |-> "documents", documents |-> <<>>]
          /\ trace' = trace \o <<"RETRIEVE", "FAILED">>
          /\ pc' = "FAILED"
          /\ fault' = "RETRIEVE"
          /\ UNCHANGED nodes
    /\ UNCHANGED <<collection, call, rerank_results, llm_calls, response,
                   raised, batch, rag_index, process, ing, defaults, rebuilt, earlier>>

LD_Retrieve ==
    /\ call.entry = "LocalQuerySystem" /\ call.op = "docs"
    /\ pc = "retrieve"
    /\ requests' = [requests EXCEPT !.retrieve = <<DocsRetrieveCount>>]
    /\ \/ \E ns \in Retrievals(StoredTexts, DocsRetrieveCount) :
            /\ nodes' = ns
            /\ result' = [type |-> "documents",
                          documents |-> SourceInfos(ns, AllRefs(ns))]
            /\ trace' = trace \o <<"RETRIEVE", "DONE">>
            /\ pc' = "DONE"
            /\ UNCHANGED fault
       \/ /\ result' = [type |-> "documents", documents |-> <<>>]
          /\ trace' = trace \o <<"RETRIEVE", "FAILED">>
          /\ pc' = "FAILED"
          /\ fault' = "RETRIEVE"
          /\ UNCHANGED nodes
    /\ UNCHANGED <<collection, call, rerank_results, llm_calls, response,
                   raised, batch, rag_index, process, ing, defaults, rebuilt, earlier>>

\* ------------------------------------------- LocalQuerySystem.batch_query
batch_query(questions) ==
    /\ process = "local_query.py"
    /\ pc = "idle"
    /\ batch' = [active |-> TRUE, questions |-> questions, i |-> 1,
                 results |-> <<>>, env |-> <<>>]
    /\ pc' = "batch"
    /\ UNCHANGED <<collection, frame, rag_index, process, ing, defaults, rebuilt, earlier>>

\* result = self.query(question, show_sources=False)
Batch_Call ==
    /\ pc = "batch"
    /\ batch.i <= Len(batch.questions)
    /\ call' = [entry |-> "LocalQuerySystem", op |-> "query",
                question |-> batch.questions[batch.i], top_k |-> <<>>,
                show_sources |-> FALSE, use_rerank |-> FALSE]
    /\ pc' = "retrieve"
    /\ trace' = <<"START">>
    /\ UNCHANGED <<collection, nodes, rerank_results, llm_calls, response,
                   result, raised, batch, rag_index, process, ing, defaults, rebuilt, earlier, requests, fault>>

\* Batch_Collect with the loop left at the first failed question
Batch_Collect_AbortOnFailure ==
    /\ batch.active
    /\ pc \in {"DONE", "FAILED"}
    /\ batch' = [batch EXCEPT !.results = Append(@, result),
                              !.i = IF pc = "FAILED"
                                    THEN Len(batch.questions) + 1 ELSE @ + 1,
                              !.env = Append(@, [fault |-> fault,
                                                 text |-> response.text])]
    /\ pc' = "batch"
    /\ call' = NoCall
    /\ nodes' = <<>>
    /\ rerank_results' = <<>>
    /\ llm_calls' = <<>>
    /\ response' = NoResponse
    /\ result' = NoResult
    /\ raised' = NoError
    /\ trace' = <<>>
    /\ fault' = "none"
    /\ requests' = NoRequests
    /\ UNCHANGED <<collection, rag_index, process, ing, defaults, rebuilt, earlier>>

\* results.append(result); env records what the external services did for
\* this question (history)
Batch_Collect ==
    /\ batch.active
    /\ pc \in {"DONE", "FAILED"}
    /\ batch' = [batch EXCEPT !.results = Append(@, result),
                              !.i = @ + 1,
                              !.env = Append(@, [fault |-> fault,
                                                 text |-> response.text])]
    /\ pc' = "batch"
    /\ call' = NoCall
    /\ nodes' = <<>>
    /\ rerank_results' = <<>>
    /\ llm_calls' = <<>>
    /\ response' = NoResponse
    /\ result' = NoResult
    /\ raised' = NoError
    /\ trace' = <<>>
    /\ fault' = "none"
    /\ requests' = NoRequests
    /\ UNCHANGED <<collection, rag_index, process, ing, defaults, rebuilt, earlier>>

\* return results (output_file is None)
Batch_Return ==
    /\ pc = "batch"
    /\ batch.i > Len(batch.questions)
    /\ result' = [type |-> "list", results |-> batch.results]
    /\ pc' = "BATCH_DONE"
    /\ UNCHANGED <<collection, call, nodes, rerank_results, llm_calls,
                   response, raised, trace, batch, rag_index, process, ing, defaults, rebuilt, earlier, requests, fault>>

\* ---------------------------------------------------- QueryService.query
HTTPException(status_code, detail) ==
    [type |-> "HTTPException", status_code |-> status_code, detail |-> detail]

SQ_Except(stage, e, calls) ==
    /\ pc' = "FAILED"
    /\ trace' = trace \o <<stage, "FAILED">>
    /\ raised' = HTTPException(500, "query processing failed: " \o e)
    /\ llm_calls' = calls
    /\ UNCHANGED <<collection, call, nodes, rerank_results, response, result,
                   batch, rag_index, process, ing, defaults, rebuilt, earlier>>
    /\ fault' = stage

SQ_Start(question, top_k) ==
    /\ process = "query_service.py"
    /\ pc = "idle"
    /\ call' = [entry |-> "QueryService", op |-> "query", question |-> question,
                top_k |-> top_k, show_sources |-> TRUE, use_rerank |-> FALSE]
    /\ pc' = "retrieve"
    /\ trace' = <<"START">>
    /\ UNCHANGED <<collection, nodes, rerank_results, llm_calls, response,
                   result, raised, batch, rag_index, process, ing, defaults, rebuilt, earlier, requests, fault>>

\* the query engine of QueryService: as_query_engine without text_qa_template
SQ_Engine ==
    IF Truthy(call.top_k) /\ call.top_k[1] /= SIMILARITY_TOP_K
    THEN [similarity_top_k |-> call.top_k[1], text_qa_template |-> DEFAULT_TEMPLATE]
    ELSE defaults.query_engine

SQ_Retrieve ==
    /\ call.entry = "QueryService" /\ call.op = "query"
    /\ pc = "retrieve"
    /\ requests' = [requests EXCEPT !.retrieve = <<SQ_Engine.similarity_top_k>>]
    /\ \/ \E ns \in Retrievals(StoredTexts, SQ_Engine.similarity_top_k) :
            /\ nodes' = ns
            /\ trace' = Append(trace, "RETRIEVE")
            /\ pc' = "compose"
            /\ UNCHANGED <<collection, call, rerank_results, llm_calls,
                           response, result, raised, batch, rag_index, process, ing, defaults, rebuilt, earlier, fault>>
       \/ SQ_Except("RETRIEVE", "retrieval error", llm_calls)

SQ_Prompt ==
    [template |-> SQ_Engine.text_qa_template,
     context_str |-> Join(NodeTexts(nodes)),
     query_str |-> call.question]

SQ_Compose ==
    /\ call.entry = "QueryService" /\ call.op = "query"
    /\ pc = "compose"
    /\ UNCHANGED requests
    /\ \/ \E text \in Answers :
            /\ llm_calls' = Append(llm_calls, SQ_Prompt)
            /\ response' = [text |-> text, source_nodes |-> AllRefs(nodes)]
            /\ trace' = Append(trace, "COMPOSE")
            /\ pc' = "respond"
            /\ UNCHANGED <<collection, call, nodes, rerank_results, result,
                           raised, batch, rag_index, process, ing, defaults, rebuilt, earlier, fault>>
       \/ SQ_Except("COMPOSE", "generation error", Append(llm_calls, SQ_Prompt))

\* node.text[:200] + "..." if len(node.text) > 200 else node.text
TruncatedText(text) ==
    IF Len(text) > 200 THEN SubSeq(text, 1, 200) \o "..." ELSE text

\* sources of QueryService.query: the text of a source is cut
SQ_SourceInfos(ns, refs) ==
    [i \in 1..Len(refs) |-> [text |-> TruncatedText(ns[refs[i]].text),
                             score |-> ns[refs[i]].score]]

SQ_Respond ==
    /\ call.entry = "QueryService" /\ call.op = "query"
    /\ pc = "respond"
    /\ result' = [type |-> "QueryResult", question |-> call.question,
                  answer |-> response.text,
                  sources |-> SQ_SourceInfos(nodes, response.source_nodes),
                  processing_time |-> 1]
    /\ trace' = Append(trace, "DONE")
    /\ pc' = "DONE"
    /\ UNCHANGED <<collection, call, nodes, rerank_results, llm_calls,
                   response, raised, batch, rag_index, process, ing, defaults, rebuilt, earlier, requests, fault>>

\* ----------------------------------- QueryService.get_relevant_documents
SD_Start(question, top_k) ==
    /\ process = "query_service.py"
    /\ pc = "idle"
    /\ call' = [entry |-> "QueryService", op |-> "docs", question |-> question,
                top_k |-> top_k, show_sources |-> TRUE, use_rerank |-> FALSE]
    /\ pc' = "retrieve"
    /\ trace' = <<"START">>
    /\ UNCHANGED <<collection, nodes, rerank_results, llm_calls, response,
                   result, raised, batch, rag_index, process, ing, defaults, rebuilt, earlier, requests, fault>>

SD_Retrieve ==
    /\ call.entry = "QueryService" /\ call.op = "docs"
    /\ pc = "retrieve"
    /\ requests' = [requests EXCEPT !.retrieve = <<DocsRetrieveCount>>]
    /\ \/ \E ns \in Retrievals(StoredTexts, DocsRetrieveCount) :
            /\ nodes' = ns
            /\ result' = [type |-> "RelevantDocs", question |-> call.question,
                          documents |-> SourceInfos(ns, AllRefs(ns)),
                          total_count |-> Len(ns)]
            /\ trace' = trace \o <<"RETRIEVE", "DONE">>
            /\ pc' = "DONE"
            /\ UNCHANGED <<raised, fault>>
       \/ /\ raised' = HTTPException(500, "document retrieval failed: " \o "retrieval error")
          /\ trace' = trace \o <<"RETRIEVE", "FAILED">>
          /\ pc' = "FAILED"
          /\ fault' = "RETRIEVE"
          /\ UNCHANGED <<nodes, result>>
    /\ UNCHANGED <<collection, call, rerank_results, llm_calls, response,
                   batch, rag_index, process, ing, defaults, rebuilt, earlier>>

\* ------------------------------------------------------------- RAGSystem
\* build_index(documents) with use_milvus = False: an index in memory over
\* the documents, and a query engine without text_qa_template
build_index(documents) ==
    /\ process = "main.py"
    /\ pc = "idle"
    /\ rag_index' = [built |-> TRUE, documents |-> documents]
    /\ UNCHANGED <<collection, pc, frame, batch, process, ing, defaults, rebuilt, earlier>>

\* RAGSystem.query has no try/except: a fault reaches the caller as raised
RQ_Raise(stage, e, calls) ==
    /\ pc' = "FAILED"
    /\ trace' = trace \o <<stage, "FAILED">>
    /\ raised' = [type |-> "Exception", message |-> e]
    /\ llm_calls' = calls
    /\ UNCHANGED <<collection, call, nodes, rerank_results, response, result,
                   batch, rag_index, process, ing, defaults, rebuilt, earlier>>
    /\ fault' = stage

RQ_Start(question) ==
    /\ process = "main.py"
    /\ pc = "idle"
    /\ call' = [entry |-> "RAGSystem", op |-> "query", question |-> question,
                top_k |-> <<>>, show_sources |-> FALSE, use_rerank |-> FALSE]
    /\ IF rag_index.built
       THEN /\ pc' = "retrieve"
            /\ trace' = <<"START">>
            /\ UNCHANGED raised
       ELSE /\ pc' = "FAILED"
            /\ trace' = <<"START", "FAILED">>
            /\ raised' = [type |-> "ValueError", message |-> "build the index first"]
    /\ UNCHANGED <<collection, nodes, rerank_results, llm_calls, response,
                   result, batch, rag_index, process, ing, defaults, rebuilt, earlier, requests, fault>>

RQ_Prompt ==
    [template |-> DEFAULT_TEMPLATE,
     context_str |-> Join(NodeTexts(nodes)),
     query_str |-> call.question]

RQ_Retrieve ==
    /\ call.entry = "RAGSystem" /\ call.op = "query"
    /\ pc = "retrieve"
    /\ requests' = [requests EXCEPT !.retrieve = <<5>>]
    /\ \/ \E ns \in Retrievals(rag_index.documents, 5) :
            /\ nodes' = ns
            /\ trace' = Append(trace, "RETRIEVE")
            /\ pc' = "compose"
            /\ UNCHANGED <<collection, call, rerank_results, llm_calls,
                           response, result, raised, batch, rag_index, process, ing, defaults, rebuilt, earlier, fault>>
       \/ RQ_Raise("RETRIEVE", "retrieval error", llm_calls)

\* synthesis and `return str(response)`
RQ_Compose ==
    /\ call.entry = "RAGSystem" /\ call.op = "query"
    /\ pc = "compose"
    /\ UNCHANGED requests
    /\ \/ \E text \in Answers :
            /\ llm_calls' = Append(llm_calls, RQ_Prompt)
            /\ response' = [text |-> text, source_nodes |-> AllRefs(nodes)]
            /\ result' = [type |-> "str", answer |-> text]
            /\ trace' = trace \o <<"COMPOSE", "DONE">>
            /\ pc' = "DONE"
            /\ UNCHANGED <<collection, call, nodes, rerank_results, raised,
                           batch, rag_index, process, ing, defaults, rebuilt, earlier, fault>>
       \/ RQ_Raise("COMPOSE", "generation error", Append(llm_calls, RQ_Prompt))

\* --------------------------------------------------------- DataIngestion
\* the loop of process_documents_from_text from position i on: a text that
\* is empty after strip() is dropped, a kept text carries its position in
\* the input (enumerate counts from 0)
RECURSIVE TextDocsFrom(_, _, _)
TextDocsFrom(texts, source, i) ==
    IF i > Len(texts) THEN <<>>
    ELSE IF Len(Strip(texts[i])) /= 0
    THEN <<Doc(texts[i], source, i - 1, "text")>> \o TextDocsFrom(texts, source, i + 1)
    ELSE TextDocsFrom(texts, source, i + 1)

\* process_documents_from_text with text_id 0 on every document
process_documents_from_text_SameId(texts, source) ==
    LET docs == TextDocsFrom(texts, source, 1)
    IN [i \in 1..Len(docs) |-> Doc(docs[i].text, source, 0, "text")]

process_documents_from_text(texts, source) == TextDocsFrom(texts, source, 1)

\* numbers of records a failing ingest_documents can leave stored: the first
\* batch is written by one VectorStoreIndex(batch_nodes, ...) construction,
\* every later node by its own index.insert_nodes([node])
\* (no write, hence no failure, for an empty list)
FailCounts(n) == IF n = 0 THEN {} ELSE {0} \cup {k \in batch_size..(n - 1) : TRUE}

\* the effect of an ingest_documents call that stored the first k documents
Ingested(op, documents, k, ok) ==
    /\ collection' = collection \o SubSeq(documents, 1, k)
    /\ ing' = [op |-> op, prev |-> ing.op, documents |-> documents,
               before |-> collection, ok |-> ok, log |-> <<>>, input |-> <<>>,
               calls |-> ing.calls + 1]
    /\ rebuilt' = IF k > 0 THEN FALSE
                  ELSE IF documents = <<>> /\ ok /\ ing.op = "clear_database" /\ ing.ok
                  THEN TRUE
                  ELSE rebuilt
    /\ UNCHANGED <<pc, frame, batch, rag_index, process, defaults, earlier>>

\* ingest_documents that skips a document the collection already holds
ingest_documents_Dedup(documents) ==
    /\ process = "document_indexing.py"
    /\ pc = "idle"
    /\ LET held(d) == \E i \in 1..Len(collection) : collection[i] = d
           fresh == SelectSeq(documents, LAMBDA d : ~held(d))
       IN /\ collection' = collection \o fresh
          /\ ing' = [op |-> "ingest_documents", prev |-> ing.op,
                     documents |-> documents, before |-> collection,
                     ok |-> TRUE, log |-> <<>>, input |-> <<>>, calls |-> ing.calls + 1]
          /\ rebuilt' = IF fresh /= <<>> THEN FALSE ELSE rebuilt
          /\ UNCHANGED <<pc, frame, batch, rag_index, process, defaults, earlier>>

\* ingest_documents whose except clause clears the collection
ingest_documents_FailureClears(documents) ==
    /\ process = "document_indexing.py"
    /\ pc = "idle"
    /\ \/ Ingested("ingest_documents", documents, Len(documents), TRUE)
       \/ /\ documents /= <<>>
          /\ collection' = <<>>
          /\ ing' = [op |-> "ingest_documents", prev |-> ing.op,
                     documents |-> documents, before |-> collection,
                     ok |-> FALSE, log |-> <<>>, input |-> <<>>, calls |-> ing.calls + 1]
          /\ rebuilt' = FALSE
          /\ UNCHANGED <<pc, frame, batch, rag_index, process, defaults, earlier>>

\* ingest_documents with an index built over the empty list too, which the
\* vector backend rejects
ingest_documents_EmptyFails(documents) ==
    /\ process = "document_indexing.py"
    /\ pc = "idle"
    /\ \/ /\ documents /= <<>>
          /\ Ingested("ingest_documents", documents, Len(documents), TRUE)
       \/ \E k \in {0} \cup FailCounts(Len(documents)) :
            Ingested("ingest_documents", documents, k, FALSE)

\* ingest_documents(documents): True when every node was written, False
\* from the except clause
ingest_documents(documents) ==
    /\ process = "document_indexing.py"
    /\ pc = "idle"
    /\ \/ Ingested("ingest_documents", documents, Len(documents), TRUE)
       \/ \E k \in FailCounts(Len(documents)) :
            Ingested("ingest_documents", documents, k, FALSE)

\* clear_database: MilvusVectorStore(..., overwrite=True) drops the records
clear_database ==
    /\ process = "document_indexing.py"
    /\ pc = "idle"
    /\ \/ /\ collection' = <<>>
          /\ ing' = [op |-> "clear_database", prev |-> ing.op, documents |-> <<>>,
                     before |-> collection, ok |-> TRUE, log |-> <<>>, input |-> <<>>,
                     calls |-> ing.calls + 1]
       \/ /\ collection' = collection
          /\ ing' = [op |-> "clear_database", prev |-> ing.op, documents |-> <<>>,
                     before |-> collection, ok |-> FALSE, log |-> <<>>, input |-> <<>>,
                     calls |-> ing.calls + 1]
    /\ rebuilt' = FALSE
    /\ UNCHANGED <<pc, frame, batch, rag_index, process, defaults, earlier>>

\* the running script ends and script p is started: its objects are built
\* anew, the collection stays
Switch(p) ==
    /\ pc = "idle"
    /\ p /= process
    /\ process' = p
    /\ rag_index' = NoIndex
    /\ ing' = NoIng
    /\ defaults' = DefaultsOf(p)
    /\ earlier' = FALSE
    /\ UNCHANGED <<collection, pc, frame, batch, rebuilt>>

\* document lists of one `--text t` run, and the empty list
SingleDocs ==
    {<<>>} \cup {<<Doc(t, "command_line", 0, "text")>> : t \in Texts}

\* the caller takes the result; the next call starts from a clean frame
Return ==
    /\ \/ pc \in {"DONE", "FAILED"} /\ ~batch.active
       \/ pc = "BATCH_DONE"
    /\ pc' = "idle"
    /\ batch' = NoBatch
    /\ call' = NoCall
    /\ nodes' = <<>>
    /\ rerank_results' = <<>>
    /\ llm_calls' = <<>>
    /\ response' = NoResponse
    /\ result' = NoResult
    /\ raised' = NoError
    /\ trace' = <<>>
    /\ fault' = "none"
    /\ requests' = NoRequests
    /\ earlier' = (earlier \/ Truthy(call.top_k) \/ call.use_rerank)
    /\ UNCHANGED <<collection, rag_index, process, ing, defaults, rebuilt>>

Next ==
    \/ \E q \in Questions, k \in TopKs, ss \in BOOLEAN, rr \in BOOLEAN :
            LQ_Start(q, k, ss, rr)
    \/ LQ_Retrieve
    \/ LQ_Rerank
    \/ LQ_Compose
    \/ LQ_Respond
    \/ \E q \in Questions, k \in TopKs : LD_Start(q, k)
    \/ LD_Retrieve
    \/ \E qs \in SeqsUpTo(Questions, MaxBatch) : batch_query(qs)
    \/ Batch_Call
    \/ Batch_Collect
    \/ Batch_Return
    \/ \E q \in Questions, k \in TopKs : SQ_Start(q, k)
    \/ SQ_Retrieve
    \/ SQ_Compose
    \/ SQ_Respond
    \/ \E q \in Questions, k \in TopKs : SD_Start(q, k)
    \/ SD_Retrieve
    \/ \E docs \in SeqsUpTo(Texts, MaxRecords) : build_index(docs)
    \/ \E q \in Questions : RQ_Start(q)
    \/ RQ_Retrieve
    \/ RQ_Compose
    \/ Return
    \/ \E p \in Processes : Switch(p)
    \/ ing.calls < MaxCalls /\ clear_database
    \/ \E docs \in SingleDocs :
            /\ ing.calls < MaxCalls
            /\ Len(collection) + Len(docs) <= MaxRecords
            /\ ingest_documents(docs)

Spec == Init /\ [][Next]_vars

\* texts handed to process_documents_from_text
IngestTexts == {"t1", " \n"}
TextInputs == SeqsUpTo(IngestTexts, MaxChunks)

\* ------------------------------------------------- PDF and directory runs
\* the files of the directory; Elements(f) are the texts of the
\* LTTextContainer elements of f, page after page
PdfFiles == {"a.pdf", "b.pdf", "blank.pdf"}
DirFiles == PdfFiles \cup {"notes.txt"}
FileLists == UNION {InjSeqs(DirFiles, n) : n \in 0..MaxFiles}

Elements(f) ==
    CASE f = "a.pdf" -> <<"a-\n", "b">>
      [] f = "b.pdf" -> <<"c d">>
      [] f = "blank.pdf" -> <<" \n">>
      [] OTHER -> <<>>

\* a text that ends a line on a hyphen loses its trailing '-' and '\n'
DeHyphen(text) ==
    IF EndsWith(text, "-\n") THEN RStripChars(text, {"-", "\n"}) ELSE text

RECURSIVE FullText(_)
FullText(elements) ==
    IF elements = <<>> THEN ""
    ELSE DeHyphen(Head(elements)) \o FullText(Tail(elements))

\* what node_parser.get_nodes_from_documents can return for a text: the text
\* cut into consecutive non-empty pieces, where to cut being the splitter's
\* choice
RECURSIVE Splits(_)
Splits(s) ==
    IF Len(s) = 0 THEN {<<>>}
    ELSE UNION {{<<SubSeq(s, 1, i)>> \o rest :
                    rest \in Splits(SubSeq(s, i + 1, Len(s)))} : i \in 1..Len(s)}

NonBlank(texts) == SelectSeq(texts, LAMBDA t : Len(Strip(t)) /= 0)

\* extract_text_from_pdf with the chunks cut before the embedding model
\* failed returned from the except clause
extract_text_from_pdf_Partial(pdf_path) ==
    LET full_text == FullText(Elements(pdf_path))
    IN {[chunks |-> <<>>, split |-> "read_failed"]} \cup
       IF Len(Strip(full_text)) = 0
       THEN {[chunks |-> <<>>, split |-> "none"]}
       ELSE {[chunks |-> <<SubSeq(Strip(full_text), 1, 1)>>, split |-> "failed"]} \cup
            {[chunks |-> NonBlank(sp), split |-> "ok"] : sp \in Splits(Strip(full_text))}

\* extract_text_from_pdf(pdf_path): the possible returns.  split tells what
\* happened: "read_failed" (extract_pages raised), "none" (no text, the
\* splitter is not called), "failed" (the embedding model raised inside the
\* splitter), "ok"
ExtractedFrom(elements) ==
    LET full_text == FullText(elements)
    IN {[chunks |-> <<>>, split |-> "read_failed"]} \cup
       IF Len(Strip(full_text)) = 0
       THEN {[chunks |-> <<>>, split |-> "none"]}
       ELSE {[chunks |-> <<>>, split |-> "failed"]} \cup
            {[chunks |-> NonBlank(sp), split |-> "ok"] : sp \in Splits(Strip(full_text))}

extract_text_from_pdf(pdf_path) == ExtractedFrom(Elements(pdf_path))

\* the loop of process_documents_from_pdf from position i on
RECURSIVE PdfDocsFrom(_, _, _)
PdfDocsFrom(paragraphs, pdf_path, i) ==
    IF i > Len(paragraphs) THEN <<>>
    ELSE IF Len(Strip(paragraphs[i])) /= 0
    THEN <<Doc(paragraphs[i], pdf_path, i - 1, "pdf")>>
            \o PdfDocsFrom(paragraphs, pdf_path, i + 1)
    ELSE PdfDocsFrom(paragraphs, pdf_path, i + 1)

\* process_documents_from_pdf, given what extract_text_from_pdf returned
process_documents_from_pdf(paragraphs, pdf_path) ==
    PdfDocsFrom(paragraphs, pdf_path, 1)

\* `if documents: ingest_documents(documents)`: whether ingest_documents was
\* called, what it returned and how many documents it stored
IngestOutcomes(documents) ==
    IF documents = <<>>
    THEN {[called |-> FALSE, ok |-> FALSE, stored |-> 0]}
    ELSE {[called |-> TRUE, ok |-> TRUE, stored |-> Len(documents)]} \cup
         {[called |-> TRUE, ok |-> FALSE, stored |-> k] :
            k \in FailCounts(Len(documents))}

\* what one input (a file, or the texts of the command line) led to
Entry(file, split, chunks, documents, o) ==
    [file |-> file, split |-> split, chunks |-> chunks, documents |-> documents,
     called |-> o.called, ok |-> o.ok, stored |-> o.stored]

\* one file of the directory loop: a file that is not a PDF is skipped
FileOutcomes(f) ==
    IF ~EndsWith(f, ".pdf")
    THEN {Entry(f, "skipped", <<>>, <<>>,
                [called |-> FALSE, ok |-> FALSE, stored |-> 0])}
    ELSE UNION {{Entry(f, e.split, e.chunks,
                       process_documents_from_pdf(e.chunks, f), o) :
                    o \in IngestOutcomes(process_documents_from_pdf(e.chunks, f))} :
                 e \in extract_text_from_pdf(f)}

\* the directory loop over files: every file is visited
RECURSIVE DirLogs(_)
DirLogs(files) ==
    IF files = <<>> THEN {<<>>}
    ELSE {<<e>> \o rest : e \in FileOutcomes(Head(files)),
                            rest \in DirLogs(Tail(files))}

\* the directory loop left at the first file that was not ingested
RECURSIVE DirLogsUntilFailure(_)
DirLogsUntilFailure(files) ==
    IF files = <<>> THEN {<<>>}
    ELSE {IF e.ok THEN <<e>> \o rest ELSE <<e>> :
            e \in FileOutcomes(Head(files)),
            rest \in DirLogsUntilFailure(Tail(files))}

\* the records written by the calls of a log, in order
RECURSIVE StoredBy(_)
StoredBy(log) ==
    IF log = <<>> THEN <<>>
    ELSE SubSeq(Head(log).documents, 1, Head(log).stored) \o StoredBy(Tail(log))

\* success_count of ingest_from_directory
SuccessCount(log) == Cardinality({i \in 1..Len(log) : log[i].ok})

\* the effect of one run of main()
Ran(op, input, log, ok) ==
    /\ collection' = collection \o StoredBy(log)
    /\ ing' = [op |-> op, prev |-> ing.op,
               documents |-> IF Len(log) = 1 THEN log[1].documents ELSE <<>>,
               before |-> collection, ok |-> ok, log |-> log, input |-> input,
               calls |-> ing.calls + 1]
    /\ rebuilt' = IF StoredBy(log) /= <<>> THEN FALSE ELSE rebuilt
    /\ UNCHANGED <<pc, frame, batch, rag_index, process, defaults, earlier>>

\* main_text with process_documents_from_text keeping every text
main_text_KeepAll(texts, source) ==
    /\ process = "document_indexing.py"
    /\ pc = "idle"
    /\ LET documents == [i \in 1..Len(texts) |-> Doc(texts[i], source, i - 1, "text")]
       IN \E o \in IngestOutcomes(documents) :
            Ran("main_text", texts, <<Entry("", "none", <<>>, documents, o)>>, o.ok)

\* main() with --text (source "command_line") or without option (the sample
\* texts, source "demo_data")
main_text(texts, source) ==
    /\ process = "document_indexing.py"
    /\ pc = "idle"
    /\ LET documents == process_documents_from_text(texts, source)
       IN \E o \in IngestOutcomes(documents) :
            Ran("main_text", texts, <<Entry("", "none", <<>>, documents, o)>>, o.ok)

\* main() with --pdf
main_pdf(pdf_path) ==
    /\ process = "document_indexing.py"
    /\ pc = "idle"
    /\ \E e \in FileOutcomes(pdf_path) : Ran("main_pdf", <<pdf_path>>, <<e>>, e.ok)

\* ingest_from_directory that stops at the first file that fails
ingest_from_directory_StopAtFailure(exists, files) ==
    /\ process = "document_indexing.py"
    /\ pc = "idle"
    /\ IF ~exists \/ files = <<>>
       THEN Ran("ingest_from_directory", files, <<>>, FALSE)
       ELSE \E log \in DirLogsUntilFailure(files) :
                Ran("ingest_from_directory", files, log,
                    SuccessCount(log) = Len(files))

\* ingest_from_directory(directory, file_pattern): exists tells whether the
\* directory exists, files are the paths the pattern matched
ingest_from_directory(exists, files) ==
    /\ process = "document_indexing.py"
    /\ pc = "idle"
    /\ IF ~exists \/ files = <<>>
       THEN Ran("ingest_from_directory", files, <<>>, FALSE)
       ELSE \E log \in DirLogs(files) :
                Ran("ingest_from_directory", files, log,
                    SuccessCount(log) = Len(files))

\* the sample texts of the demonstration mode
DemoTexts == <<"s1", "s2", "s3">>

\* one run of document_indexing.py: main() serves one option and returns
InitMain ==
    /\ process = "document_indexing.py"
    /\ collection \in InitCollections
    /\ ing = NoIng
    /\ defaults = DefaultsOf(process)
    /\ rebuilt = FALSE
    /\ requests = NoRequests
    /\ earlier = FALSE
    /\ pc = "idle"
    /\ call = NoCall
    /\ nodes = <<>>
    /\ rerank_results = <<>>
    /\ llm_calls = <<>>
    /\ response = NoResponse
    /\ result = NoResult
    /\ raised = NoError
    /\ trace = <<>>
    /\ batch = NoBatch
    /\ rag_index = NoIndex
    /\ fault = "none"

NextMain ==
    \/ ing.op = "none" /\ clear_database
    \/ \E pdf_path \in PdfFiles : ing.op = "none" /\ main_pdf(pdf_path)
    \/ \E exists \in BOOLEAN, files \in FileLists :
            /\ ing.op = "none"
            /\ ~exists => files = <<>>
            /\ ingest_from_directory(exists, files)
    \/ \E texts \in TextInputs : ing.op = "none" /\ main_text(texts, "command_line")
    \/ ing.op = "none" /\ main_text(DemoTexts, "demo_data")

SpecMain == InitMain /\ [][NextMain]_vars

\* ------------------------------------------------------ text extraction
\* texts of LTTextContainer elements: plain, ending a line on a hyphen,
\* ending it on two hyphens, and hyphenated inside the element
Fragments == {"a", "a-\n", "a--\n", "a-\nb"}
FragmentLists == SeqsUpTo(Fragments, MaxFragments)

\* s.lstrip(chars)
RECURSIVE LStripChars(_, _)
LStripChars(s, chars) ==
    IF Len(s) = 0 THEN s
    ELSE IF SubSeq(s, 1, 1) \in chars
    THEN LStripChars(SubSeq(s, 2, Len(s)), chars)
    ELSE s

\* s.split('\n')
RECURSIVE SplitLines(_)
SplitLines(s) ==
    LET breaks == {i \in 1..Len(s) : SubSeq(s, i, i) = "\n"}
    IN IF breaks = {} THEN <<s>>
       ELSE LET i == CHOOSE x \in breaks : \A y \in breaks : x <= y
            IN <<SubSeq(s, 1, i - 1)>> \o SplitLines(SubSeq(s, i + 1, Len(s)))

\* full_text of RAGSystem.extract_text_from_pdf: element.get_text() + newline
RECURSIVE RAG_FullText(_)
RAG_FullText(elements) ==
    IF elements = <<>> THEN ""
    ELSE Head(elements) \o "\n" \o RAG_FullText(Tail(elements))

\* the loop over lines of RAGSystem.extract_text_from_pdf (min_line_length
\* = 1): a line that ends on '-' is appended with text.strip('-'), any
\* other line with a space before it; an empty line closes the paragraph
RECURSIVE Paragraphs(_, _, _)
Paragraphs(lines, buffer, paragraphs) ==
    IF lines = <<>>
    THEN IF Len(buffer) /= 0 THEN Append(paragraphs, buffer) ELSE paragraphs
    ELSE LET text == Head(lines)
         IN IF Len(text) >= 1
            THEN Paragraphs(Tail(lines),
                            buffer \o (IF ~EndsWith(text, "-")
                                       THEN " " \o text
                                       ELSE LStripChars(RStripChars(text, {"-"}), {"-"})),
                            paragraphs)
            ELSE IF Len(buffer) /= 0
            THEN Paragraphs(Tail(lines), "", Append(paragraphs, buffer))
            ELSE Paragraphs(Tail(lines), buffer, paragraphs)

\* DataIngestion.extract_text_from_pdf on a file with the given elements
DI_Extract(elements) ==
    /\ process = "document_indexing.py"
    /\ pc = "idle"
    /\ \E e \in ExtractedFrom(elements) :
            ing' = [op |-> "DataIngestion.extract_text_from_pdf", prev |-> ing.op,
                    documents |-> <<>>, before |-> collection,
                    ok |-> e.split = "ok",
                    log |-> <<[full_text |-> FullText(elements),
                               split |-> e.split, paragraphs |-> e.chunks]>>,
                    input |-> elements, calls |-> ing.calls + 1]
    /\ UNCHANGED <<collection, pc, frame, batch, rag_index, process, defaults,
                   rebuilt, earlier>>

\* RAGSystem.extract_text_from_pdf on a file with the given elements
RAG_Extract(elements) ==
    /\ process = "main.py"
    /\ pc = "idle"
    /\ ing' = [op |-> "RAGSystem.extract_text_from_pdf", prev |-> ing.op,
               documents |-> <<>>, before |-> collection, ok |-> TRUE,
               log |-> <<[full_text |-> RAG_FullText(elements), split |-> "none",
                          paragraphs |-> Paragraphs(SplitLines(RAG_FullText(elements)),
                                                    "", <<>>)]>>,
               input |-> elements, calls |-> ing.calls + 1]
    /\ UNCHANGED <<collection, pc, frame, batch, rag_index, process, defaults,
                   rebuilt, earlier>>

\* one extraction by either program
InitExtract ==
    /\ process \in {"document_indexing.py", "main.py"}
    /\ collection = <<>>
    /\ ing = NoIng
    /\ defaults = DefaultsOf(process)
    /\ rebuilt = FALSE
    /\ requests = NoRequests
    /\ earlier = FALSE
    /\ pc = "idle"
    /\ call = NoCall
    /\ nodes = <<>>
    /\ rerank_results = <<>>
    /\ llm_calls = <<>>
    /\ response = NoResponse
    /\ result = NoResult
    /\ raised = NoError
    /\ trace = <<>>
    /\ batch = NoBatch
    /\ rag_index = NoIndex
    /\ fault = "none"

NextExtract ==
    \/ \E elements \in FragmentLists : ing.op = "none" /\ DI_Extract(elements)
    \/ \E elements \in FragmentLists : ing.op = "none" /\ RAG_Extract(elements)

SpecExtract == InitExtract /\ [][NextExtract]_vars

\* ------------------------------------------------------------------
\* One run of an ingestion process that calls clear_database and
\* ingest_documents on lists built by process_documents_from_text.
\* ------------------------------------------------------------------
\* a list that does not fit in one batch
LongTexts == [i \in 1..(batch_size + MaxTail) |-> "t1"]

InitIngest ==
    /\ process = "document_indexing.py"
    /\ collection = <<>>
    /\ ing = NoIng
    /\ defaults = DefaultsOf(process)
    /\ rebuilt = FALSE
    /\ requests = NoRequests
    /\ earlier = FALSE
    /\ pc = "idle"
    /\ call = NoCall
    /\ nodes = <<>>
    /\ rerank_results = <<>>
    /\ llm_calls = <<>>
    /\ response = NoResponse
    /\ result = NoResult
    /\ raised = NoError
    /\ trace = <<>>
    /\ batch = NoBatch
    /\ rag_index = NoIndex
    /\ fault = "none"

NextIngest ==
    \/ ing.calls < MaxCalls /\ clear_database
    \/ \E texts \in TextInputs \cup {LongTexts} :
            /\ ing.calls < MaxCalls
            /\ ingest_documents(process_documents_from_text(texts, "text_input"))

SpecIngest == InitIngest /\ [][NextIngest]_vars

\* ===================================================================
\* Properties
\* ===================================================================
Terminal == pc \in {"DONE", "FAILED"}
IsLocalQuery == call.entry = "LocalQuerySystem" /\ call.op = "query"
InTrace(stage) == \E i \in 1..Len(trace) : trace[i] = stage

\* C1: when LocalQuerySystem.query runs with use_rerank and the rerank call
\* fails, the query does not end in a failure result: it ends DONE with an
\* answer composed from the retriever's nodes in retrieval order.
C1_RerankFailureFallsBack ==
    (IsLocalQuery /\ call.use_rerank /\ Terminal /\ fault = "RERANK")
        => /\ pc = "DONE"
           /\ result.answer \in Answers
           /\ Len(llm_calls) = 1
           /\ llm_calls[1].context_str = Join(NodeTexts(nodes))

\* C2: a failure raised during retrieval or generation of a query is caught
\* at the query boundary: nothing propagates to the caller of
\* LocalQuerySystem.query or QueryService.query, which receives a result with
\* the question, the error description as answer and no sources.
C2_FaultsCaughtAtQueryBoundary ==
    (call.op = "query" /\ call.entry \in {"LocalQuerySystem", "QueryService"}
        /\ Terminal /\ fault \in {"RETRIEVE", "COMPOSE"})
        => /\ raised = NoError
           /\ result.type = "QueryResult"
           /\ result.question = call.question
           /\ result.answer \in {FailureAnswer("retrieval error"),
                                  FailureAnswer("generation error")}
           /\ result.sources = <<>>

\* C3: batch_query over n questions returns n results, result i belonging to
\* question i; a question whose generation call failed has a failure
\* description as answer, the loop went on after it, and the result of every
\* question that did not fail is the one its own query produced.
C3_BatchResultsInOrder ==
    /\ batch.active => /\ Len(batch.results) = Len(batch.env)
                       /\ Len(batch.results) = batch.i - 1
                       /\ batch.i <= Len(batch.questions) + 1
    /\ pc = "BATCH_DONE" =>
         /\ Len(result.results) = Len(batch.questions)
         /\ \A i \in 1..Len(batch.questions) :
              /\ result.results[i].question = batch.questions[i]
              /\ batch.env[i].fault = "COMPOSE" =>
                    /\ result.results[i].answer = FailureAnswer("generation error")
                    /\ result.results[i].sources = <<>>
              /\ batch.env[i].fault = "none" =>
                    result.results[i] =
                        [type |-> "QueryResult", question |-> batch.questions[i],
                         answer |-> batch.env[i].text, sources |-> <<>>,
                         processing_time |-> 1]

\* C3 witness: a batch of two questions has returned, the generation call of
\* the first failed and the second was answered
C3_Witness ==
    /\ pc = "BATCH_DONE"
    /\ Len(batch.questions) >= 2
    /\ batch.env[1].fault = "COMPOSE"
    /\ batch.env[2].fault = "none"
    /\ result.results[2].answer \in Answers

\* C4: when the retriever returns zero candidates, the context handed to
\* generation is empty and the returned answer equals the fixed
\* cannot-answer string, with and without rerank.
C4_ZeroCandidatesCannotAnswer ==
    (IsLocalQuery /\ pc = "DONE" /\ nodes = <<>>)
        => /\ llm_calls[1].context_str = ""
           /\ result.answer = CANNOT_ANSWER

\* C5: every invocation of the generation model, from every query entry
\* point, uses the fixed grounding instruction template.
C5_GroundingTemplateAlways ==
    \A i \in 1..Len(llm_calls) : llm_calls[i].template = CUSTOM_TEMPLATE

\* C6: the sources of a reranked query are distinct retrieved candidates:
\* each is one of the retrieved nodes, none is reported twice, and there are
\* at most min(k, number retrieved) of them.
C6_RerankPermutation ==
    (IsLocalQuery /\ call.use_rerank /\ pc = "DONE")
        => LET refs == response.source_nodes
           IN /\ \A i \in 1..Len(refs) : refs[i] \in 1..Len(nodes)
              /\ \A i, j \in 1..Len(refs) :
                    i /= j => nodes[refs[i]].node_id /= nodes[refs[j]].node_id
              /\ Len(refs) <= Min(OrDefault(call.top_k, SIMILARITY_TOP_K), Len(nodes))
              /\ call.show_sources => Len(result.sources) = Len(refs)

\* C7: after reranking, the sources of the result are in non-increasing
\* order of score and the i-th source carries the score the rerank model
\* gave the i-th ranked candidate.
C7_RerankScoresDescending ==
    (IsLocalQuery /\ call.use_rerank /\ call.show_sources /\ pc = "DONE")
        => /\ Len(result.sources) = Len(rerank_results)
           /\ \A i \in 1..Len(result.sources) :
                 result.sources[i].score = rerank_results[i].score
           /\ \A i \in 1..Len(result.sources) - 1 :
                 result.sources[i].score >= result.sources[i + 1].score

StageRank(stage) ==
    CASE stage = "START" -> 1
      [] stage = "RETRIEVE" -> 2
      [] stage = "RERANK" -> 3
      [] stage = "COMPOSE" -> 4
      [] stage = "LOG" -> 5
      [] stage \in {"DONE", "FAILED"} -> 6

\* C8: a call goes START, RETRIEVE, optional RERANK, COMPOSE in that order
\* and ends in exactly one of DONE or FAILED; generation is invoked only
\* after retrieval returned, RERANK runs only when use_rerank is set, and
\* nothing (generation, logging) runs after FAILED.
C8_StagesInOrder ==
    /\ trace /= <<>> => trace[1] = "START"
    /\ \A i \in 1..Len(trace) - 1 : StageRank(trace[i]) < StageRank(trace[i + 1])
    /\ \A i \in 1..Len(trace) :
          trace[i] \in {"RERANK", "COMPOSE"} => i > 2 /\ trace[2] = "RETRIEVE"
    /\ llm_calls /= <<>> => InTrace("RETRIEVE") /\ InTrace("COMPOSE")
    /\ InTrace("RERANK") => call.use_rerank
    /\ InTrace("COMPOSE") /\ call.use_rerank => InTrace("RERANK")
    /\ InTrace("FAILED") => ~InTrace("LOG") /\ ~InTrace("DONE")
    /\ pc = "DONE" <=> (trace /= <<>> /\ trace[Len(trace)] = "DONE")
    /\ pc = "FAILED" <=> (trace /= <<>> /\ trace[Len(trace)] = "FAILED")
    /\ (pc = "DONE" /\ call.op = "query") => InTrace("COMPOSE")

\* C8 witness: a reranked query that went through every stage
C8_Witness ==
    /\ IsLocalQuery
    /\ pc = "DONE"
    /\ trace = <<"START", "RETRIEVE", "RERANK", "COMPOSE", "LOG", "DONE">>

\* C9: a query that reaches COMPOSE invokes the generation model exactly
\* once, a query that failed in RETRIEVE never does, and
\* get_relevant_documents never does.
C9_GenerationOnce ==
    /\ Len(llm_calls) <= 1
    /\ InTrace("COMPOSE") <=> Len(llm_calls) = 1
    /\ call.op = "docs" => llm_calls = <<>> /\ ~InTrace("COMPOSE")
    /\ fault = "RETRIEVE" => llm_calls = <<>>

\* C9 witness: a query that reached COMPOSE has returned
C9_Witness ==
    /\ call.op = "query"
    /\ pc = "DONE"
    /\ nodes /= <<>>
    /\ Len(llm_calls) = 1

\* C10: against an empty collection, retrieval yields no candidates and
\* that is not an error: unless an external call raised, the documents-only
\* call returns an empty list and a query reaches DONE.
C10_EmptyCollectionNotError ==
    (process /= "main.py" /\ collection = <<>> /\ Terminal /\ fault = "none")
        => /\ pc = "DONE"
           /\ raised = NoError
           /\ nodes = <<>>
           /\ call.op = "docs" => result.documents = <<>>
           /\ call.op = "query" => result.sources = <<>>

\* C10 witness: get_relevant_documents has returned on an empty collection
C10_Witness ==
    /\ collection = <<>>
    /\ call.op = "docs"
    /\ pc = "DONE"
    /\ result.documents = <<>>

C14_EmptyRebuild ==
    /\ (ing.op = "ingest_documents" /\ ing.prev = "clear_database"
            /\ ing.documents = <<>>)
          => ing.ok /\ collection = ing.before
    /\ rebuilt => collection = <<>>
    /\ (rebuilt /\ process /= "main.py" /\ Terminal /\ call.op \in {"query", "docs"})
          => /\ nodes = <<>>
             /\ fault = "none" => (pc = "DONE" /\ raised = NoError)
             /\ (fault = "none" /\ call.op = "docs") => result.documents = <<>>
             /\ (fault = "none" /\ call.op = "query") => result.sources = <<>>

\* C14 witness: a query has returned after the collection was cleared and
\* an empty list ingested
C14_Witness ==
    /\ rebuilt
    /\ process = "local_query.py"
    /\ call.op = "query"
    /\ pc = "DONE"

\* C12: a call never changes the default query engine and retriever of its
\* service object; so whatever calls came before, a query or retrieval
\* without top_k asks the retriever for the configured default (twice that
\* when reranking), gets that many nodes or all that are stored, and a query
\* builds one prompt from the template of the default engine.
C12_QueriesStateless ==
    /\ process \in {"local_query.py", "query_service.py"}
          => defaults = DefaultsOf(process)
    /\ (call.entry \in {"LocalQuerySystem", "QueryService"} /\ call.top_k = <<>>
            /\ requests.retrieve /= <<>>)
          => requests.retrieve =
                <<IF call.use_rerank THEN 2 * SIMILARITY_TOP_K ELSE SIMILARITY_TOP_K>>
    /\ (call.entry \in {"LocalQuerySystem", "QueryService"} /\ call.top_k = <<>>
            /\ pc = "DONE")
          => /\ Len(nodes) = Min(requests.retrieve[1], Len(collection))
             /\ call.op = "query"
                  => /\ result.type = "QueryResult"
                     /\ Len(llm_calls) = 1
                     /\ llm_calls[1].template =
                            DefaultsOf(process).query_engine.text_qa_template

\* C12 witness: after a call that overrode top_k or reranked, a query
\* without top_k has returned
C12_Witness ==
    /\ earlier
    /\ call.op = "query"
    /\ call.top_k = <<>>
    /\ ~call.use_rerank
    /\ pc = "DONE"
    /\ nodes /= <<>>

Key(d) == <<d.metadata.source, d.metadata.id>>

DistinctKeys(ds) ==
    \A i, j \in 1..Len(ds) : i /= j => Key(ds[i]) /= Key(ds[j])

\* C13: an ingest_documents call that succeeds appends exactly its n
\* documents to whatever the collection held, so ingesting the same list
\* again without a clear doubles the records of that list.
C13_IngestAppends ==
    (ing.op = "ingest_documents" /\ ing.ok)
        => /\ collection = ing.before \o ing.documents
           /\ Len(collection) = Len(ing.before) + Len(ing.documents)

\* C13 witness: the same non-empty list was ingested twice in a row
C13_Witness ==
    /\ ing.op = "ingest_documents"
    /\ ing.ok
    /\ ing.documents /= <<>>
    /\ ing.before = ing.documents
    /\ collection = ing.documents \o ing.documents

C17_UniqueKeys == DistinctKeys(collection)

\* C17, amended: the documents one process_documents_from_text call builds,
\* and so the records one ingest_documents call stores, have pairwise
\* distinct (source_id, sequence_index).
C17_UniqueKeysPerCall ==
    /\ DistinctKeys(ing.documents)
    /\ ing.op = "ingest_documents"
          => DistinctKeys(SubSeq(collection, Len(ing.before) + 1, Len(collection)))

\* C17 witness: a call stored several records with distinct keys while the
\* collection as a whole holds one key twice
C17_Witness ==
    /\ ing.op = "ingest_documents"
    /\ ing.ok
    /\ Len(ing.documents) >= 2
    /\ ~DistinctKeys(collection)

\* C16: no stored record has a text that is empty after strip(): the
\* documents process_documents_from_text and process_documents_from_pdf build
\* are exactly the non-blank fragments of their input, in order, and only
\* those reach ingest_documents.
C16_NoBlankRecords ==
    /\ \A i \in 1..Len(collection) : Len(Strip(collection[i].text)) /= 0
    /\ \A i \in 1..Len(ing.log) :
          /\ \A j \in 1..Len(ing.log[i].documents) :
                Len(Strip(ing.log[i].documents[j].text)) /= 0
          /\ ing.log[i].split = "ok"
                => [j \in 1..Len(ing.log[i].documents) |-> ing.log[i].documents[j].text]
                     = NonBlank(ing.log[i].chunks)
    /\ ing.op = "main_text"
          => [j \in 1..Len(ing.documents) |-> ing.documents[j].text]
               = NonBlank(ing.input)

\* C16 witness: a run with --text dropped a blank text and stored the rest
C16_Witness ==
    /\ ing.op = "main_text"
    /\ ing.ok
    /\ ing.documents /= <<>>
    /\ Len(ing.documents) < Len(ing.input)
    /\ Len(collection) = Len(ing.before) + Len(ing.documents)

C19_SplitFailureYieldsNothing ==
    /\ \A i \in 1..Len(ing.log) :
          ing.log[i].split = "failed"
            => /\ ing.log[i].chunks = <<>>
               /\ ing.log[i].documents = <<>>
               /\ ~ing.log[i].called
               /\ ing.log[i].stored = 0
    /\ (ing.op = "main_pdf" /\ ing.log[1].split = "failed")
          => collection = ing.before /\ ~ing.ok

\* C19 witness: a run with --pdf whose split failed, on a collection that
\* holds records
C19_Witness ==
    /\ ing.op = "main_pdf"
    /\ ing.log[1].split = "failed"
    /\ ing.before /= <<>>
    /\ collection = ing.before

\* the texts of the final ordered candidate list of the call: the rerank
\* results when reranking applied, the retrieved nodes otherwise
FinalTexts ==
    IF call.use_rerank
    THEN [i \in 1..Len(rerank_results) |-> rerank_results[i].document]
    ELSE NodeTexts(nodes)

\* C21: the context given to generation is the texts of the final ordered
\* candidate list joined by a blank line, and the sources of the returned
\* result are that list: same length, i-th text equal.
C21_SourcesAreContext ==
    (IsLocalQuery /\ pc = "DONE")
        => /\ llm_calls[1].context_str = Join(FinalTexts)
           /\ Len(result.sources) = Len(FinalTexts)
           /\ \A i \in 1..Len(result.sources) :
                 result.sources[i].text = FinalTexts[i]

\* C21, amended: the context is the final list joined by a blank line; the
\* sources of the returned result are that list when show_sources is set,
\* and the empty list when it is not.
C21_SourcesAreContextWhenShown ==
    (IsLocalQuery /\ pc = "DONE")
        => /\ llm_calls[1].context_str = Join(FinalTexts)
           /\ call.show_sources
                => /\ Len(result.sources) = Len(FinalTexts)
                   /\ \A i \in 1..Len(result.sources) :
                         result.sources[i].text = FinalTexts[i]
           /\ ~call.show_sources => result.sources = <<>>

\* C21 witness: a reranked query returned two sources in an order that is
\* not the retrieval order
C21_Witness ==
    /\ IsLocalQuery
    /\ pc = "DONE"
    /\ call.use_rerank
    /\ call.show_sources
    /\ Len(result.sources) = 2
    /\ rerank_results[1].index = 2
    /\ nodes[1].text /= nodes[2].text

\* C22: every size handed to the retriever or to the reranker is a positive
\* integer; a supplied top_k that is zero or negative never reaches them.
C22_SizesPositive ==
    /\ requests.retrieve /= <<>> => requests.retrieve[1] > 0
    /\ requests.rerank /= <<>> => requests.rerank[1] > 0

\* a fragment with its hyphenation marker, and nothing else, removed
WithoutMarker(fragment, marker) ==
    IF EndsWith(fragment, marker)
    THEN SubSeq(fragment, 1, Len(fragment) - Len(marker))
    ELSE fragment

RECURSIVE ConcatWithoutMarkers(_, _)
ConcatWithoutMarkers(fragments, marker) ==
    IF fragments = <<>> THEN ""
    ELSE WithoutMarker(Head(fragments), marker)
            \o ConcatWithoutMarkers(Tail(fragments), marker)

RECURSIVE Concat(_)
Concat(texts) == IF texts = <<>> THEN "" ELSE Head(texts) \o Concat(Tail(texts))

\* C23: the extracted text is the concatenation of the fragments, each with
\* exactly its trailing hyphenation marker removed and nothing inserted: the
\* fragments are the elements and the marker is "-\n" in DataIngestion, the
\* non-empty lines and "-" in RAGSystem.
C23_OnlyMarkersDropped ==
    /\ (ing.op = "DataIngestion.extract_text_from_pdf"
            /\ ing.log[1].split /= "read_failed")
          => ing.log[1].full_text = ConcatWithoutMarkers(ing.input, "-\n")
    /\ ing.op = "RAGSystem.extract_text_from_pdf"
          => Concat(ing.log[1].paragraphs)
               = ConcatWithoutMarkers(
                    SelectSeq(SplitLines(ing.log[1].full_text),
                              LAMBDA l : Len(l) /= 0), "-")

====
